---- MODULE Spec2Model ----
(***************************************************************************)
(* Model of src/app.py: the Streamlit script of the Tanglish clinical      *)
(* scribe.  Each browser session runs the script top to bottom on every    *)
(* interaction; process_consultation (lines 67-120) drives the remote      *)
(* upload / poll / generate workflow.  Sessions share the process: the     *)
(* google.generativeai module configuration and the temporary directory    *)
(* are process-global, st.session_state is per session.                    *)
(***************************************************************************)
EXTENDS Integers, FiniteSets, TLC

\* ---------------------------------------------------------------- bounds
MaxFiles == 2   \* temporary file names available in the temp directory
MaxPolls == 2   \* largest finite number of PROCESSING reports of the remote

\* ------------------------------------------------------------- value sets
Sessions == {1, 2}
None == "<None>"
Blocked == "<blocked>"
Texts == {"T1", "T2"}
KeyOf(s) == IF s = 1 THEN "k1" ELSE "k2"
Paths == 1..MaxFiles
NoPath == 0
ZeroOps == [upload |-> 0, get_file |-> 0, generate |-> 0]
NoRemote == [forever |-> FALSE, left |-> 0]

VARIABLES
    connected,   \* sessions with a browser attached to the server process
    case_sheet,  \* st.session_state.case_sheet, per session
    pc,          \* position of the session's script run
    api_key,     \* sidebar text input (widget state) of the run
    audio_val,   \* audio widget holds a recording in the run
    button,      \* the reset button is rendered on the session's page
    notice,      \* inline notice of the last run: "", "warning", "error"
    tmp_path,    \* local tmp_path of process_consultation
    myfile,      \* local myfile.state.name (None before upload returns)
    response,    \* local response of generate_content
    result,      \* value returned by process_consultation
    ops,         \* remote operations issued by the running invocation
    keysUsed,    \* credentials the remote saw for the invocation's operations
    remote,      \* remaining PROCESSING reports of the uploaded asset
    genaiKey,    \* process-global credential set by genai.configure
    files        \* temporary files that exist

vars == <<connected, case_sheet, pc, api_key, audio_val, button, notice, tmp_path,
          myfile, response, result, ops, keysUsed, remote, genaiKey, files>>

\* ---------------------------------------------------------- pure helpers
\* Python truthiness of a str-or-None value.
Truthy(v) == v # None /\ v # ""

\* faulty variant: the credential is not looked at
HasCredentialOpen(k) == TRUE
\* line 148: "if not api_key" guards the call
HasCredential(k) == Truthy(k)

\* faulty variants: the loop is skipped; the loop never ends
LoopNever(state) == FALSE
LoopAlways(state) == TRUE
\* line 82: while myfile.state.name == "PROCESSING"
LoopContinues(state) == state = "PROCESSING"

\* faulty variants: the result is stored unchecked; never stored
HandlerAlwaysWrites(old, res) == res
HandlerNeverWrites(old, res) == old
\* lines 163-164: if result: st.session_state.case_sheet = result
HandlerSheet(old, res) == IF Truthy(res) THEN res ELSE old

\* faulty variant: the reset forgets to clear the sheet
ResetKeeps(old) == old
\* line 186: st.session_state.case_sheet = ""
ResetSheet(old) == ""

\* faulty variant: a failed step is attempted again
RetryOnRaise(at) == at
\* lines 118-120: any exception leaves process_consultation
PcAfterRaise(at) == "returned"

Min(a, b) == IF a < b THEN a ELSE b

\* tempfile.NamedTemporaryFile picks a name that does not exist yet.
FreshPath == CHOOSE p \in Paths \ files : \A q \in Paths \ files : p <= q

\* A name is left for every invocation that has not created its file yet.
CanCall == Cardinality(files) + Cardinality({t \in Sessions : pc[t] = "call"})
              < MaxFiles

Issue(s, op) ==
    /\ ops' = [ops EXCEPT ![s][op] = Min(@ + 1, MaxPolls)]
    /\ keysUsed' = [keysUsed EXCEPT ![s] = @ \cup {genaiKey}]

\* except Exception as e: st.error(...); return None
Raise(s, at) ==
    /\ pc' = [pc EXCEPT ![s] = PcAfterRaise(at)]
    /\ notice' = [notice EXCEPT ![s] = "error"]
    /\ result' = [result EXCEPT ![s] = None]

\* lines 147-161: the submission handler up to the call, for the widget
\* values k (credential) and a (a recording is present)
Submit(s, k, a) ==
    /\ api_key' = [api_key EXCEPT ![s] = k]
    /\ audio_val' = [audio_val EXCEPT ![s] = a]
    /\ IF ~a
         THEN /\ pc' = [pc EXCEPT ![s] = "display"]
              /\ notice' = [notice EXCEPT ![s] = ""]
         ELSE IF ~HasCredential(k)
           THEN /\ pc' = [pc EXCEPT ![s] = "display"]
                /\ notice' = [notice EXCEPT ![s] = "warning"]
           ELSE /\ CanCall
                /\ pc' = [pc EXCEPT ![s] = "call"]
                /\ notice' = [notice EXCEPT ![s] = ""]
    /\ UNCHANGED <<connected, case_sheet, button, tmp_path, myfile, response,
                   result, ops, keysUsed, remote, genaiKey, files>>

\* -------------------------------------------------------------------- Init
\* lines 63-65 give every session an empty case sheet on its first run.
Start(open) ==
    /\ connected = open
    /\ case_sheet = [s \in Sessions |-> ""]
    /\ pc = [s \in Sessions |-> "idle"]
    /\ api_key = [s \in Sessions |-> ""]
    /\ audio_val = [s \in Sessions |-> FALSE]
    /\ button = [s \in Sessions |-> FALSE]
    /\ notice = [s \in Sessions |-> ""]
    /\ tmp_path = [s \in Sessions |-> NoPath]
    /\ myfile = [s \in Sessions |-> None]
    /\ response = [s \in Sessions |-> None]
    /\ result = [s \in Sessions |-> None]
    /\ ops = [s \in Sessions |-> ZeroOps]
    /\ keysUsed = [s \in Sessions |-> {}]
    /\ remote = [s \in Sessions |-> NoRemote]
    /\ genaiKey = ""
    /\ files = {}

\* One doctor uses the application.
Init == Start({1})

\* Two browser sessions are served by the same process.
ConcInit == Start(Sessions)

\* ----------------------------------------------------------------- actions
\* A user interaction runs the script with the widgets' current values.
StartRun(s) ==
    /\ s \in connected
    /\ pc[s] = "idle"
    /\ \E k \in {"", KeyOf(s)}, a \in BOOLEAN : Submit(s, k, a)

\* lines 70-77: genai.configure(api_key=api_key), then
\* NamedTemporaryFile(delete=False), write, keep the name
Prepare(s) ==
    /\ pc[s] = "call"
    /\ genaiKey' = api_key[s]
    /\ tmp_path' = [tmp_path EXCEPT ![s] = FreshPath]
    /\ files' = files \cup {FreshPath}
    /\ pc' = [pc EXCEPT ![s] = "upload"]
    /\ UNCHANGED <<connected, case_sheet, api_key, audio_val, button, notice, myfile,
                   response, result, ops, keysUsed, remote>>

\* line 79: myfile = genai.upload_file(tmp_path)
Upload(s) ==
    /\ pc[s] = "upload"
    /\ Issue(s, "upload")
    /\ \/ /\ Raise(s, "upload")
          /\ UNCHANGED <<myfile, remote>>
       \/ /\ \E st \in {"ACTIVE", "FAILED"} :
                myfile' = [myfile EXCEPT ![s] = st]
          /\ pc' = [pc EXCEPT ![s] = "wait"]
          /\ UNCHANGED <<remote, notice, result>>
       \/ /\ myfile' = [myfile EXCEPT ![s] = "PROCESSING"]
          /\ \E r \in [forever : {FALSE}, left : 0..(MaxPolls - 1)]
                      \cup {[forever |-> TRUE, left |-> 0]} :
                remote' = [remote EXCEPT ![s] = r]
          /\ pc' = [pc EXCEPT ![s] = "wait"]
          /\ UNCHANGED <<notice, result>>
    /\ UNCHANGED <<connected, case_sheet, api_key, audio_val, button, tmp_path,
                   response, genaiKey, files>>

\* lines 82-84: one iteration of the poll loop
Poll(s) ==
    /\ pc[s] = "wait"
    /\ LoopContinues(myfile[s])
    /\ Issue(s, "get_file")
    /\ \/ /\ remote[s].forever \/ remote[s].left > 0
          /\ myfile' = [myfile EXCEPT ![s] = "PROCESSING"]
          /\ remote' = [remote EXCEPT ![s].left =
                            IF remote[s].forever THEN @ ELSE @ - 1]
          /\ UNCHANGED <<pc, notice, result>>
       \/ /\ ~remote[s].forever
          /\ remote[s].left = 0
          /\ \E st \in {"ACTIVE", "FAILED"} :
                myfile' = [myfile EXCEPT ![s] = st]
          /\ UNCHANGED <<pc, notice, result, remote>>
       \/ /\ ~remote[s].forever
          /\ Raise(s, "wait")
          /\ remote' = [remote EXCEPT ![s] = NoRemote]
          /\ UNCHANGED myfile
    /\ UNCHANGED <<connected, case_sheet, api_key, audio_val, button, tmp_path,
                   response, genaiKey, files>>

\* lines 86-111: the loop is left, response = model.generate_content(...)
Generate(s) ==
    /\ pc[s] = "wait"
    /\ ~LoopContinues(myfile[s])
    /\ Issue(s, "generate")
    /\ \/ /\ Raise(s, "wait")
          /\ UNCHANGED response
       \/ /\ \E r \in Texts \cup {"", Blocked} :
                response' = [response EXCEPT ![s] = r]
          /\ pc' = [pc EXCEPT ![s] = "cleanup"]
          /\ UNCHANGED <<notice, result>>
    /\ UNCHANGED <<connected, case_sheet, api_key, audio_val, button, tmp_path,
                   myfile, remote, genaiKey, files>>

\* lines 114-116: os.remove(tmp_path); return response.text
Cleanup(s) ==
    /\ pc[s] = "cleanup"
    /\ files' = files \ {tmp_path[s]}
    /\ IF response[s] = Blocked
         THEN Raise(s, "cleanup")
         ELSE /\ result' = [result EXCEPT ![s] = response[s]]
              /\ pc' = [pc EXCEPT ![s] = "returned"]
              /\ UNCHANGED notice
    /\ UNCHANGED <<connected, case_sheet, api_key, audio_val, button, tmp_path,
                   myfile, response, ops, keysUsed, remote, genaiKey>>

\* lines 161-164: result = process_consultation(...); if result: store it
Handler(s) ==
    /\ pc[s] = "returned"
    /\ case_sheet' = [case_sheet EXCEPT ![s] = HandlerSheet(@, result[s])]
    /\ pc' = [pc EXCEPT ![s] = "display"]
    /\ UNCHANGED <<connected, api_key, audio_val, button, notice, tmp_path,
                   myfile, response, result, ops, keysUsed, remote, genaiKey,
                   files>>

\* The locals of the run are gone when the script ends.
EndRun(s) ==
    /\ tmp_path' = [tmp_path EXCEPT ![s] = NoPath]
    /\ myfile' = [myfile EXCEPT ![s] = None]
    /\ response' = [response EXCEPT ![s] = None]
    /\ result' = [result EXCEPT ![s] = None]
    /\ ops' = [ops EXCEPT ![s] = ZeroOps]
    /\ keysUsed' = [keysUsed EXCEPT ![s] = {}]
    /\ remote' = [remote EXCEPT ![s] = NoRemote]
    /\ UNCHANGED <<connected, notice, genaiKey, files>>

\* lines 167-187 when "Start New Patient" is not pressed: the results and the
\* button are rendered iff the case sheet is non-empty, and the script ends
Display(s) ==
    /\ pc[s] = "display"
    /\ pc' = [pc EXCEPT ![s] = "idle"]
    /\ button' = [button EXCEPT ![s] = Truthy(case_sheet[s])]
    /\ api_key' = [api_key EXCEPT ![s] = ""]
    /\ audio_val' = [audio_val EXCEPT ![s] = FALSE]
    /\ EndRun(s)
    /\ UNCHANGED case_sheet

\* lines 185-187: st.button returns True in the run that follows a press of
\* the button rendered on the previous page; the sheet is cleared and
\* st.rerun() ends the run
Reset(s) ==
    /\ pc[s] = "display"
    /\ Truthy(case_sheet[s])
    /\ button[s]
    /\ case_sheet' = [case_sheet EXCEPT ![s] = ResetSheet(@)]
    /\ button' = [button EXCEPT ![s] = FALSE]
    /\ pc' = [pc EXCEPT ![s] = "rerun"]
    /\ EndRun(s)
    /\ UNCHANGED <<api_key, audio_val>>

\* line 187: st.rerun() runs the script again with the widgets as they are
Rerun(s) ==
    /\ pc[s] = "rerun"
    /\ Submit(s, api_key[s], audio_val[s])

\* The steps of process_consultation, which run without user interaction.
CallStep(s) ==
    \/ Prepare(s)
    \/ Upload(s)
    \/ Poll(s)
    \/ Generate(s)
    \/ Cleanup(s)

Next ==
    \/ \E s \in Sessions : StartRun(s)
    \/ \E s \in Sessions : Prepare(s)
    \/ \E s \in Sessions : Upload(s)
    \/ \E s \in Sessions : Poll(s)
    \/ \E s \in Sessions : Generate(s)
    \/ \E s \in Sessions : Cleanup(s)
    \/ \E s \in Sessions : Handler(s)
    \/ \E s \in Sessions : Display(s)
    \/ \E s \in Sessions : Reset(s)
    \/ \E s \in Sessions : Rerun(s)

Spec == Init /\ [][Next]_vars

ConcSpec == ConcInit /\ [][Next]_vars

\* A started invocation keeps executing: the script thread is never suspended
\* by anything but its own time.sleep.
FairSpec == Spec /\ \A s \in Sessions : WF_vars(CallStep(s))

Terminal(s) == pc[s] = "returned"

InCall(s) == pc[s] \in {"call", "upload", "wait", "cleanup"}

TypeOK ==
    /\ case_sheet \in [Sessions -> Texts \cup {""}]
    /\ pc \in [Sessions -> {"idle", "call", "upload", "wait", "cleanup",
                            "returned", "display", "rerun"}]
    /\ tmp_path \in [Sessions -> Paths \cup {NoPath}]
    /\ myfile \in [Sessions -> {None, "PROCESSING", "ACTIVE", "FAILED"}]
    /\ result \in [Sessions -> Texts \cup {"", None}]
    /\ files \subseteq Paths

\* ------------------------------------------------------------------ claims
Issued(s, op) == ops'[s][op] > ops[s][op]

\* C1: when an invocation of process_consultation that created its temporary
\* file has returned, on the success path or on any failure path, the file
\* no longer exists.
C1_TempFileRemoved ==
    \A s \in Sessions :
        (Terminal(s) /\ tmp_path[s] # NoPath) => tmp_path[s] \notin files

\* C2: a submission that fails (process_consultation returns None) never
\* changes the session's case_sheet: no step of the call writes it and the
\* handler leaves it as it was before the submission.
C2_FailureKeepsSheet ==
    [][\A s \in Sessions :
          (InCall(s) \/ (Terminal(s) /\ result[s] = None))
              => case_sheet'[s] = case_sheet[s]]_vars

C2_Witness ==
    \E s \in Sessions :
        /\ pc[s] = "display"
        /\ notice[s] = "error"
        /\ response[s] = Blocked
        /\ case_sheet[s] \in Texts

\* C3: a run with a recording and an empty credential performs no remote
\* operation, does not configure the credential, creates no temporary file,
\* reports the credential warning and leaves case_sheet unchanged.
C3_NoCredentialNoCall ==
    /\ [](\A s \in Sessions :
            (pc[s] = "display" /\ audio_val[s] /\ api_key[s] = "")
                => /\ ops[s] = ZeroOps
                   /\ keysUsed[s] = {}
                   /\ tmp_path[s] = NoPath
                   /\ notice[s] = "warning")
    /\ [][\A s \in Sessions :
            (pc[s] \in {"idle", "rerun"} /\ pc'[s] # pc[s]
               /\ audio_val'[s] /\ api_key'[s] = "")
                => /\ pc'[s] = "display"
                   /\ notice'[s] = "warning"
                   /\ ops' = ops
                   /\ files' = files
                   /\ genaiKey' = genaiKey
                   /\ case_sheet' = case_sheet]_vars

C3_Witness ==
    \E s \in Sessions :
        /\ pc[s] = "display"
        /\ audio_val[s]
        /\ api_key[s] = ""
        /\ notice[s] = "warning"
        /\ case_sheet[s] \in Texts

\* C4: the generate request is never issued while the last observed state of
\* the uploaded file is PROCESSING.
C4_NoGenerateWhileProcessing ==
    [][\A s \in Sessions :
          Issued(s, "generate") => myfile[s] # "PROCESSING"]_vars

C4_Witness ==
    \E s \in Sessions :
        /\ ops[s].generate = 1
        /\ ops[s].get_file >= 1
        /\ myfile[s] = "ACTIVE"

\* C5: the generate request is issued only when the last observed state of
\* the handle is ready (ACTIVE); a handle in an error state ends the
\* invocation without a generate request.
C5_GenerateOnlyWhenReady ==
    [][\A s \in Sessions :
          Issued(s, "generate") => myfile[s] = "ACTIVE"]_vars

\* C6: when generation returns non-empty text T, process_consultation returns
\* T, the handler stores exactly T in case_sheet, and case_sheet changes only
\* by a successful submission or by the reset.
C6_SuccessStoresText ==
    [][\A s \in Sessions :
          /\ (pc[s] = "cleanup" /\ response[s] \in Texts /\ pc'[s] # pc[s])
                => (Terminal(s)' /\ result'[s] = response[s])
          /\ (Terminal(s) /\ result[s] \in Texts /\ pc'[s] # pc[s])
                => case_sheet'[s] = result[s]
          /\ case_sheet'[s] # case_sheet[s]
                => \/ Terminal(s) /\ result[s] \in Texts
                   \/ pc[s] = "display" /\ pc'[s] = "rerun"]_vars

C6_Witness ==
    \E s \in Sessions :
        /\ pc[s] = "display"
        /\ result[s] \in Texts
        /\ case_sheet[s] = result[s]
        /\ ops[s].get_file = 2
        /\ myfile[s] = "ACTIVE"

C8_CallsIndependent ==
    /\ [](\A s \in Sessions : keysUsed[s] \subseteq {api_key[s]})
    /\ [][\A s \in Sessions :
            case_sheet'[s] # case_sheet[s]
                => \/ Terminal(s) /\ case_sheet'[s] = result[s]
                   \/ pc[s] = "display" /\ pc'[s] = "rerun"]_vars

C10_PollLoop ==
    /\ [][\A s \in Sessions :
            /\ Issued(s, "get_file") => myfile[s] = "PROCESSING"
            /\ (pc[s] = "wait" /\ myfile[s] = "PROCESSING" /\ pc'[s] # "wait")
                  => (Terminal(s)' /\ result'[s] = None)]_vars
    /\ \A s \in Sessions :
          (pc[s] \in {"wait", "cleanup"} /\ ~remote[s].forever) ~> Terminal(s)
    /\ [](\A s \in Sessions :
            remote[s].forever => (pc[s] = "wait" /\ myfile[s] = "PROCESSING"))

C10_Witness ==
    \E s \in Sessions :
        /\ remote[s].forever
        /\ pc[s] = "wait"
        /\ ops[s].get_file = MaxPolls
====
